---- MODULE Spec2Model ----
(***************************************************************************)
(* A model of json-rpc/tools/xml2json.py: the conversion of an XML         *)
(* description of RPC handlers into one JSON document per handler.         *)
(*                                                                         *)
(* XML elements are records [tag, attrib, children]; attrib is a set of    *)
(* <<name, value>> pairs.  JSON objects are functions from key strings to  *)
(* values.  A Python call is modelled by an operator that returns a record *)
(* [st, val]: st = "ok" (val is the returned value), st = "none" (the      *)
(* function returned None) or st = "raise" (val names the uncaught         *)
(* exception, which every caller propagates: the source has no try/except  *)
(* around any call).                                                       *)
(***************************************************************************)
EXTENDS Integers, Sequences, FiniteSets, TLC

VARIABLES doc, disk, written, hi, mi, methods, pc, exc, call, ret

vars == <<doc, disk, written, hi, mi, methods, pc, exc, call, ret>>

(***************************************************************************)
(* Bounds of the model.                                                    *)
(***************************************************************************)
\* children of the handler under conversion
MaxChildren == 2
\* lexical atoms of an auth_type attribute
MaxAuthLen == 3
\* children of a choice parameter or of an <output>
MaxKids == 2
\* <item> children of a list parameter
MaxItems == 3

(***************************************************************************)
(* Python call results.                                                    *)
(***************************************************************************)
Ok(v) == [st |-> "ok", val |-> v]
NoneR == [st |-> "none", val |-> "None"]
Raise(e) == [st |-> "raise", val |-> e]

\* The value json.dumps writes as null (a Python None stored in a dict).
PyNone == "<None>"

(***************************************************************************)
(* lxml elements.                                                          *)
(***************************************************************************)
El(tag, attrib, children) == [tag |-> tag, attrib |-> attrib, children |-> children]

\* elem.attrib.get(k) is not None
Has(e, k) == \E p \in e.attrib : p[1] = k
\* elem.attrib[k]
Get(e, k) == (CHOOSE p \in e.attrib : p[1] = k)[2]
\* elem.attrib.get(k, d)
GetOr(e, k, d) == IF Has(e, k) THEN Get(e, k) ELSE d
\* bool(elem.attrib.get(k)) for a string attribute
Truthy(e, k) == Has(e, k) /\ Get(e, k) # ""

\* elem.findall(tag): the children with that tag, in document order
FindAll(e, tag) == SelectSeq(e.children, LAMBDA c : c.tag = tag)
\* elem.find(tag) is not None
HasChild(e, tag) == \E i \in 1..Len(e.children) : e.children[i].tag = tag
\* elem.find(tag): the first child with that tag
Find(e, tag) == FindAll(e, tag)[1]

(***************************************************************************)
(* Python dicts (JSON objects).                                            *)
(***************************************************************************)
EmptyDict == [k \in {} |-> TRUE]
Put(d, k, v) == [x \in (DOMAIN d) \cup {k} |-> IF x = k THEN v ELSE d[x]]
\* a.update(b)
Update(a, b) == [x \in (DOMAIN a) \cup (DOMAIN b) |-> IF x \in DOMAIN b THEN b[x] ELSE a[x]]
\* the dict left after d.pop(k)
Pop(d, k) == [x \in (DOMAIN d) \ {k} |-> d[x]]
\* if "schema" in d: d.update(d.pop("schema"))
FlattenSchema(d) == IF "schema" \in DOMAIN d THEN Update(Pop(d, "schema"), d["schema"]) ELSE d
\* d[k] = v when c holds
PutIf(c, d, k, v) == IF c THEN Put(d, k, v) ELSE d

\* JSON scalars whose Python type varies (enum members, defaults) carry it.
JStr(s) == <<"str", s>>
JInt(n) == <<"int", n>>
JBool(b) == <<"bool", b>>

\* int(s): the decimal strings of the model's universe; any other string
\* raises ValueError.
IntOf == [s \in {"0", "1", "7", "-1"} |->
            CASE s = "0" -> 0 [] s = "1" -> 1 [] s = "7" -> 7 [] s = "-1" -> 0 - 1]
IsIntStr(s) == s \in DOMAIN IntOf

(***************************************************************************)
(* ParamType and paramTypeMapping.  A JSON type is one string or a tuple   *)
(* of strings: [tuple, parts].                                             *)
(***************************************************************************)
Single(s) == [tuple |-> FALSE, parts |-> <<s>>]
Tuple(ss) == [tuple |-> TRUE, parts |-> ss]
\* bool(t)
TypeTruthy(t) == IF t.tuple THEN Len(t.parts) > 0 ELSE t.parts[1] # ""
\* "array" in t: membership for a tuple; for a string a substring test, which
\* among the strings of the table only "array" itself passes.
ContainsArray(t) ==
    IF t.tuple THEN \E i \in 1..Len(t.parts) : t.parts[i] = "array"
    ELSE t.parts[1] = "array"

ParamType(type, comment, pattern) == [type |-> type, comment |-> comment, pattern |-> pattern]

datetimePattern == "^[0-9]{4}-[0-9]{2}-[0-9]{2} [0-9]{2}:[0-9]{2}(:[0-9]{2})?$"

TypeTags == {"any", "str", "srt", "str_int", "int", "float", "str_float",
             "datetime", "datetime, float", "datetime, null", "bool",
             "true_if_exists", "list", "list, str", "dict", "null",
             "int, null", "dynamic", "list, int", "int, list", "str, list"}

paramTypeMapping == [t \in TypeTags |->
    CASE t = "any" -> ParamType(Single(""), "", "")
      [] t = "str" -> ParamType(Single("string"), "", "")
      [] t = "srt" -> ParamType(Single("string"), "", "")
      [] t = "str_int" -> ParamType(Single("string"), "", "^[0-9]+$")
      [] t = "int" -> ParamType(Single("number"), "", "")
      [] t = "float" -> ParamType(Single("number"), "", "")
      [] t = "str_float" -> ParamType(Single("str"), "float as string", "")
      [] t = "datetime" -> ParamType(Single("string"), "datetime", datetimePattern)
      [] t = "datetime, float" -> ParamType(Tuple(<<"string", "number">>), "datetime or number", "")
      [] t = "datetime, null" -> ParamType(Tuple(<<"string", "null">>), "datetime or null", datetimePattern)
      [] t = "bool" -> ParamType(Single("boolean"), "", "")
      [] t = "true_if_exists" -> ParamType(Single("boolean"), "true if exists", "")
      [] t = "list" -> ParamType(Single("array"), "", "")
      [] t = "list, str" -> ParamType(Tuple(<<"array", "string">>), "", "")
      [] t = "dict" -> ParamType(Single("object"), "", "")
      [] t = "null" -> ParamType(Single("null"), "", "")
      [] t = "int, null" -> ParamType(Tuple(<<"number", "null">>), "int or null", "")
      [] t = "dynamic" -> ParamType(Single(""), "dynamic type", "")
      [] t = "list, int" -> ParamType(Tuple(<<"array", "number">>), "array or int", "")
      [] t = "int, list" -> ParamType(Tuple(<<"number", "array">>), "int or array", "")
      [] t = "str, list" -> ParamType(Tuple(<<"string", "array">>), "string or array", "")]

\* paramTypeMapping[tag]: a KeyError for a tag that is no key of the table
\* a lookup that falls back to the empty type on an unknown tag
LookupTypeLenient(tag) ==
    IF tag \in DOMAIN paramTypeMapping THEN Ok(paramTypeMapping[tag])
    ELSE Ok(ParamType(Single(""), "", ""))

LookupType(tag) ==
    IF tag \in DOMAIN paramTypeMapping THEN Ok(paramTypeMapping[tag]) ELSE Raise("KeyError")


RECURSIVE getJsonParam(_), ParamsLoop(_, _, _), ChoiceLoop(_, _, _), MultiLoop(_, _, _)
RECURSIVE PropertiesLoop(_, _, _), OutputChoices(_, _, _), ResultParamsLoop(_, _, _)
RECURSIVE ReprJoin(_, _), SplitLoop(_, _, _, _), Concat(_), LStrip(_), RStrip(_)

(***************************************************************************)
(* getChoiceJsonParam                                                      *)
(***************************************************************************)
\* the loop's locals before its first iteration
ChoiceAcc0 == [values |-> <<>>, comments |-> EmptyDict, hasDefault |-> FALSE, default |-> JStr("")]

\* type="int" asks for int(value)
IsIntChoice(c) == Truthy(c, "type") /\ Get(c, "type") = "int"

\* the value of one <choice>, after the coercion its type attribute asks for
ChoiceValue(c) ==
    IF IsIntChoice(c) THEN JInt(IntOf[Get(c, "value")]) ELSE JStr(Get(c, "value"))

\* the loop's locals after the iteration on the <choice> c of value v
ChoiceStep(acc, c, v) ==
    [values |-> Append(acc.values, v),
     comments |-> PutIf(Truthy(c, "comment"), acc.comments, v, GetOr(c, "comment", "")),
     hasDefault |-> acc.hasDefault \/ Truthy(c, "default"),
     default |-> IF Truthy(c, "default") THEN v ELSE acc.default]

\* the loop over param.getchildren(), from child i on
ChoiceLoop(kids, i, acc) ==
    IF i > Len(kids) THEN Ok(acc)
    ELSE IF kids[i].tag # "choice" THEN NoneR
    ELSE IF ~Has(kids[i], "value") THEN NoneR
    ELSE IF IsIntChoice(kids[i]) /\ ~IsIntStr(Get(kids[i], "value")) THEN Raise("ValueError")
    ELSE ChoiceLoop(kids, i + 1, ChoiceStep(acc, kids[i], ChoiceValue(kids[i])))

\* the coercion of the default: "true"/"false" to a boolean, a decimal string to an int
CoerceDefault(d) ==
    IF d[1] = "str" /\ d[2] \in {"true", "false"} THEN JBool(d[2] = "true")
    ELSE IF d[1] = "str" /\ IsIntStr(d[2]) THEN JInt(IntOf[d[2]])
    ELSE d

\* paramJson, from the loop's locals
ChoiceJson(param, acc) ==
    PutIf(DOMAIN acc.comments # {},
          PutIf(acc.hasDefault,
                Put(PutIf(Has(param, "comment"),
                          PutIf(Truthy(param, "name"), EmptyDict, "name", GetOr(param, "name", "")),
                          "description", GetOr(param, "comment", "")),
                    "enum", acc.values),
                "default", CoerceDefault(acc.default)),
          "value_comment", acc.comments)

ChoiceReturn(param, r) == IF r.st = "ok" THEN Ok(ChoiceJson(param, r.val)) ELSE r

getChoiceJsonParam(param) == ChoiceReturn(param, ChoiceLoop(param.children, 1, ChoiceAcc0))

(***************************************************************************)
(* getParams                                                               *)
(***************************************************************************)
\* the JSON of one child of elem; None for a child the loop passes over
ChildParam(param) ==
    IF param.tag # "param" THEN NoneR
    ELSE IF ~Truthy(param, "name") THEN NoneR
    ELSE getJsonParam(param)

\* the rest of the loop after child i gave jsonParam
ParamsNext(kids, i, params, jsonParam) ==
    IF jsonParam.st = "raise" THEN jsonParam
    ELSE ParamsLoop(kids, i + 1,
                    IF jsonParam.st = "none" THEN params ELSE Append(params, jsonParam.val))

ParamsLoop(kids, i, params) ==
    IF i > Len(kids) THEN Ok(params) ELSE ParamsNext(kids, i, params, ChildParam(kids[i]))

getParams(elem) == ParamsLoop(elem.children, 1, <<>>)

(***************************************************************************)
(* getListItemSchema, getMultiTypeListItemSchema, getListSchema            *)
(***************************************************************************)
\* for param in params: if "schema" in param: param.update(param.pop("schema"))
FlattenAll(params) == [i \in 1..Len(params) |-> FlattenSchema(params[i])]

\* the schema of an <item type="choice">, from getChoiceJsonParam's result
ChoiceItem(item, tmp) ==
    IF tmp.st # "ok" THEN tmp
    ELSE Ok(Pop(Update(Put(EmptyDict, "title", GetOr(item, "comment", "")), tmp.val),
                "description"))

\* the schema of an <item type="dict">, from getParams' result
DictItem(item, params) ==
    IF params.st = "raise" THEN params
    ELSE Ok(Put(PutIf(Has(item, "dynamic_keys") /\ GetOr(item, "dynamic_keys", "") = "true",
                      Put(Put(EmptyDict, "title", GetOr(item, "comment", "")),
                          "type", Single("object")),
                      "dynamic_keys", TRUE),
                "params", FlattenAll(params.val)))

getListItemSchema(item) ==
    IF ~Truthy(item, "type") THEN NoneR
    ELSE IF Get(item, "type") = "choice" THEN ChoiceItem(item, getChoiceJsonParam(item))
    ELSE IF Get(item, "type") = "dict" THEN DictItem(item, getParams(item))
    ELSE Ok(Put(Put(EmptyDict, "title", GetOr(item, "comment", "")),
                "type", Single(Get(item, "type"))))

\* a numbering of the items from 1
ItemIndexFromOne(i) == i

\* enumerate(items) numbers the items from 0
ItemIndex(i) == i - 1

\* the rest of the loop after item i gave schema2
MultiNext(items, i, result, schema2) ==
    IF schema2.st = "raise" THEN schema2
    ELSE MultiLoop(items, i + 1,
                   IF schema2.st = "none" THEN result
                   ELSE Append(result, Update(Put(EmptyDict, "index", ItemIndex(i)), schema2.val)))

MultiLoop(items, i, result) ==
    IF i > Len(items) THEN Ok(result)
    ELSE MultiNext(items, i, result, getListItemSchema(items[i]))

getMultiTypeListItemSchema(items) == MultiLoop(items, 1, <<>>)

\* schema["length"] is set
CopiesLength(elem) == Truthy(elem, "length") /\ Get(elem, "length") # "-1"

WithLength(elem, schema) == PutIf(CopiesLength(elem), schema, "length", GetOr(elem, "length", ""))

\* "if itemSchema:": neither None, nor an empty list, nor an empty dict
ItemSchemaTruthy(itemSchema) == itemSchema.st = "ok" /\ DOMAIN itemSchema.val # {}

\* the schema once itemSchema is known
ListSchemaWith(elem, newType, itemSchema) ==
    IF itemSchema.st = "raise" THEN itemSchema
    ELSE Ok(WithLength(elem, PutIf(ItemSchemaTruthy(itemSchema),
                                   Put(EmptyDict, "type", newType), "items", itemSchema.val)))

\* itemSchema for a non-empty list of <item> children
ItemSchema(items) ==
    IF Len(items) > 1 THEN getMultiTypeListItemSchema(items) ELSE getListItemSchema(items[1])

getListSchema(elem, newType) ==
    IF Len(FindAll(elem, "item")) = 0 THEN Ok(WithLength(elem, Put(EmptyDict, "type", newType)))
    ELSE ListSchemaWith(elem, newType, ItemSchema(FindAll(elem, "item")))

(***************************************************************************)
(* setDynamicKeys, setDictParamsSchema                                     *)
(***************************************************************************)
\* a key descriptor that would lose the key's comment
KeyDescriptorUntitled(key) == Put(Put(EmptyDict, "type", GetOr(key, "type", "")), "title", "")

\* schema["__key__"]
KeyDescriptor(key) ==
    Put(Put(EmptyDict, "type", GetOr(key, "type", "")), "title", GetOr(key, "comment", ""))

\* valueJson after 'if "schema" in valueJson: ...', from getJsonParam's result:
\* the "in" test raises a TypeError when that result is None
ValueJson(r) ==
    IF r.st = "raise" THEN r
    ELSE IF r.st = "none" THEN Raise("TypeError")
    ELSE Ok(FlattenSchema(r.val))

\* the schema once valueJson is known
WithKeyValue(param, schema, valueJson) ==
    IF valueJson.st = "raise" THEN valueJson
    ELSE Ok(Put(Put(Put(schema, "dynamic_keys", TRUE),
                    "__key__", KeyDescriptor(Find(param, "key"))),
                "__value__", valueJson.val))

setDynamicKeys(param, schema) ==
    IF ~HasChild(param, "key") THEN Ok(Put(schema, "dynamic_keys", TRUE))
    ELSE IF ~HasChild(param, "value") THEN Ok(Put(schema, "dynamic_keys", TRUE))
    ELSE WithKeyValue(param, schema, ValueJson(getJsonParam(Find(param, "value"))))

\* title = subParam.pop("description") if it has one, else ""
TitleOf(subParam) == IF "description" \in DOMAIN subParam THEN subParam["description"] ELSE ""
\* subParam.pop("schema") if it has one, else nothing to merge
SchemaOf(subParam) == IF "schema" \in DOMAIN subParam THEN subParam["schema"] ELSE EmptyDict

\* one property of a dict schema, from the sub-parameter's JSON
Property(subParam) ==
    Update(Update(Put(EmptyDict, "title", TitleOf(subParam)), SchemaOf(subParam)),
           Pop(Pop(Pop(subParam, "name"), "description"), "schema"))

PropertiesLoop(subParams, i, properties) ==
    IF i > Len(subParams) THEN properties
    ELSE PropertiesLoop(subParams, i + 1,
                        Put(properties, subParams[i]["name"], Property(subParams[i])))

\* schema["properties"] = properties, on the schema the dynamic_keys test left
WithProperties(properties, schema) ==
    IF schema.st = "raise" THEN schema ELSE Ok(Put(schema.val, "properties", properties))

\* the function after its call of getParams
DictSchemaWith(param, schema, subParams) ==
    IF subParams.st = "raise" THEN subParams
    ELSE WithProperties(PropertiesLoop(subParams.val, 1, EmptyDict),
                        IF Has(param, "dynamic_keys") /\ GetOr(param, "dynamic_keys", "") = "true"
                        THEN setDynamicKeys(param, schema)
                        ELSE Ok(schema))

setDictParamsSchema(param, schema) == DictSchemaWith(param, schema, getParams(param))

(***************************************************************************)
(* addParamExtraAttrs, getJsonParam                                        *)
(***************************************************************************)
addParamExtraAttrs(param, paramJson) ==
    IF Has(param, "default")
    THEN Put(Put(paramJson, "required", FALSE), "default", JStr(Get(param, "default")))
    ELSE IF Truthy(param, "optional")
    THEN Put(paramJson, "required", FALSE)
    ELSE paramJson

\* the JSON of a parameter with a literal value: "like a choice with one value"
ValueParamJson(param) ==
    addParamExtraAttrs(param,
        Put(Put(Put(EmptyDict, "name", GetOr(param, "name", PyNone)),
                "description", GetOr(param, "comment", "")),
            "enum", <<JStr(Get(param, "value"))>>))

\* description, with the comment of the mapped type before it
Description(param, newType) ==
    IF newType.comment # "" THEN newType.comment \o ", " \o GetOr(param, "comment", "")
    ELSE GetOr(param, "comment", "")

\* the JSON of a parameter described by a schema
SchemaParamJson(param, newType, schema) ==
    addParamExtraAttrs(param,
        Put(Put(PutIf(Truthy(param, "name"), EmptyDict, "name", GetOr(param, "name", "")),
                "description", Description(param, newType)),
            "schema", schema))

\* the schema after the array test: the pattern, or else the dict's members
SchemaRest(param, newType, schema) ==
    IF schema.st = "raise" THEN schema
    ELSE IF newType.pattern # "" THEN Ok(Put(schema.val, "pattern", newType.pattern))
    ELSE IF Has(param, "type") /\ Get(param, "type") = "dict"
    THEN setDictParamsSchema(param, schema.val)
    ELSE schema

\* the schema of a parameter of the mapped type newType
ParamSchema(param, newType) ==
    SchemaRest(param, newType,
               IF ContainsArray(newType.type)
               THEN getListSchema(param, newType.type)
               ELSE Ok(Put(EmptyDict, "type", newType.type)))

ParamWithSchema(param, newType, schema) ==
    IF schema.st = "raise" THEN schema ELSE Ok(SchemaParamJson(param, newType, schema.val))

\* the function after the lookup of the type
ParamOfType(param, newType) ==
    IF newType.st = "raise" THEN newType
    ELSE IF Truthy(param, "value") THEN Ok(ValueParamJson(param))
    ELSE ParamWithSchema(param, newType.val, ParamSchema(param, newType.val))

\* the branch taken for a parameter whose type is "choice"
ChoiceParam(param) == getChoiceJsonParam(param)

getJsonParam(param) ==
    IF Has(param, "type") /\ Get(param, "type") = "choice" THEN ChoiceParam(param)
    ELSE ParamOfType(param,
                     IF Truthy(param, "type") THEN LookupType(Get(param, "type"))
                     ELSE Ok(ParamType(Single(""), "", "")))

(***************************************************************************)
(* getJsonMethod                                                           *)
(***************************************************************************)
\* the loop over the children of <output type="choice">
OutputChoices(kids, i, resultValues) ==
    IF i > Len(kids) THEN resultValues
    ELSE OutputChoices(kids, i + 1,
                       IF kids[i].tag = "choice" /\ Truthy(kids[i], "value")
                       THEN Append(resultValues, JStr(Get(kids[i], "value")))
                       ELSE resultValues)

\* one entry of resultParams, from the JSON of a sub-parameter of <output>
ResultParam(jsonParamTmp) ==
    Update(Update(Put(EmptyDict, "title", TitleOf(jsonParamTmp)), SchemaOf(jsonParamTmp)),
           Pop(Pop(Pop(jsonParamTmp, "name"), "description"), "schema"))

\* the rest of the loop after child i gave jsonParamTmp
ResultParamsNext(kids, i, resultParams, jsonParamTmp) ==
    IF jsonParamTmp.st = "raise" THEN jsonParamTmp
    ELSE ResultParamsLoop(kids, i + 1,
                          IF jsonParamTmp.st = "none" THEN resultParams
                          ELSE Put(resultParams, Get(kids[i], "name"), ResultParam(jsonParamTmp.val)))

\* the loop over the <param> children of <output>
ResultParamsLoop(kids, i, resultParams) ==
    IF i > Len(kids) THEN Ok(resultParams)
    ELSE ResultParamsNext(kids, i, resultParams, ChildParam(kids[i]))

\* ", ".join(repr(x) for x in parts[i:])
ReprJoin(parts, i) ==
    IF i > Len(parts) THEN ""
    ELSE IF i = Len(parts) THEN "'" \o parts[i] \o "'"
    ELSE "'" \o parts[i] \o "', " \o ReprJoin(parts, i + 1)

\* str(t) inside the f-string of the result's name
TypeStr(t) ==
    IF t.tuple
    THEN "(" \o ReprJoin(t.parts, 1) \o (IF Len(t.parts) = 1 THEN "," ELSE "") \o ")"
    ELSE t.parts[1]

\* resultValues after the two tests of the <output> attributes: [set, values]
\* (set = FALSE is Python's None)
ResultValues(outputElem) ==
    IF Has(outputElem, "type") /\ Get(outputElem, "type") = "choice"
    THEN [set |-> TRUE, values |-> OutputChoices(outputElem.children, 1, <<>>)]
    ELSE IF Truthy(outputElem, "value")
    THEN [set |-> TRUE, values |-> <<JStr(Get(outputElem, "value"))>>]
    ELSE [set |-> FALSE, values |-> <<>>]

\* resultType after the two tests of the <output> attributes
ResultType(outputElem) ==
    IF Truthy(outputElem, "type") /\ Get(outputElem, "type") # "choice"
    THEN LookupType(Get(outputElem, "type"))
    ELSE Ok(ParamType(Single(""), "", ""))

ResultName(resultValues, resultType) ==
    IF resultValues.set THEN "Response (one of following values)"
    ELSE IF TypeTruthy(resultType.type) THEN "Response (" \o TypeStr(resultType.type) \o ")"
    ELSE ""

ResultSchema(resultType, resultParams) ==
    PutIf(DOMAIN resultParams # {},
          Put(Put(EmptyDict, "title", ""), "type", resultType.type),
          "properties", resultParams)

\* the "result" member of a method
Result(outputElem, resultValues, resultType, resultParams) ==
    PutIf(resultValues.set,
          PutIf(TypeTruthy(resultType.type),
                Put(Put(EmptyDict, "name", ResultName(resultValues, resultType)),
                    "comment", GetOr(outputElem, "comment", "")),
                "schema", ResultSchema(resultType, resultParams)),
          "enum", resultValues.values)

\* jsonMethod before its "result" is set
JsonMethodHead(handlerName, method, authTypes, params) ==
    Put(PutIf(Truthy(method, "requires_perm"),
              Put(Put(Put(EmptyDict, "name", handlerName \o "." \o GetOr(method, "name", "")),
                      "description", GetOr(method, "comment", "")),
                  "auth_type", authTypes),
              "requires_perm", GetOr(method, "requires_perm", "")),
        "params", params)

\* "elif not outputType: return None": neither a value nor a type
NoOutputTypeNorValue(outputElem) == ~Truthy(outputElem, "value") /\ ~Truthy(outputElem, "type")

\* the function after the loop over the sub-parameters of <output>
MethodWithResult(head, outputElem, resultType, resultParams) ==
    IF resultParams.st = "raise" THEN resultParams
    ELSE Ok(Put(head, "result",
                Result(outputElem, ResultValues(outputElem), resultType, resultParams.val)))

\* the function after the lookup of the output's type
MethodOfType(head, outputElem, resultType) ==
    IF resultType.st = "raise" THEN resultType
    ELSE MethodWithResult(head, outputElem, resultType.val,
                          ResultParamsLoop(outputElem.children, 1, EmptyDict))

\* the function after getParams(inputElem)
MethodOfParams(handlerName, method, authTypes, params) ==
    IF params.st = "raise" THEN params
    ELSE IF NoOutputTypeNorValue(Find(method, "output")) THEN NoneR
    ELSE MethodOfType(JsonMethodHead(handlerName, method, authTypes, params.val),
                      Find(method, "output"), ResultType(Find(method, "output")))

getJsonMethod(handlerName, method, authTypes) ==
    IF method.tag # "method" THEN NoneR
    ELSE IF ~Truthy(method, "name") THEN NoneR
    ELSE IF ~HasChild(method, "input") THEN NoneR
    ELSE IF ~HasChild(method, "output") THEN NoneR
    ELSE MethodOfParams(handlerName, method, authTypes, getParams(Find(method, "input")))

(***************************************************************************)
(* The auth_type attribute.  Its value is kept as the sequence of its      *)
(* lexical atoms: "," (a comma), " " (one blank) or a run of other         *)
(* characters; the empty sequence is the empty string.                     *)
(***************************************************************************)
\* "".join(atoms)
Concat(atoms) == IF atoms = <<>> THEN "" ELSE Head(atoms) \o Concat(Tail(atoms))

\* authTypesStr.split(","): the pieces between the commas, from atom i on,
\* cur being the piece under construction
SplitLoop(atoms, i, cur, pieces) ==
    IF i > Len(atoms) THEN Append(pieces, cur)
    ELSE IF atoms[i] = "," THEN SplitLoop(atoms, i + 1, <<>>, Append(pieces, cur))
    ELSE SplitLoop(atoms, i + 1, Append(cur, atoms[i]), pieces)

Split(atoms) == SplitLoop(atoms, 1, <<>>, <<>>)

LStrip(piece) == IF piece # <<>> /\ Head(piece) = " " THEN LStrip(Tail(piece)) ELSE piece
RStrip(piece) ==
    IF piece # <<>> /\ piece[Len(piece)] = " " THEN RStrip(SubSeq(piece, 1, Len(piece) - 1))
    ELSE piece
\* x.strip()
Strip(piece) == Concat(RStrip(LStrip(piece)))

\* a default that would let anonymous callers in
DefaultAuthTypesAll == <<"ADMIN", "NORMAL_USER", "VOIP_USER", "ANONYMOUS">>

DefaultAuthTypes == <<"ADMIN", "NORMAL_USER", "VOIP_USER">>

\* [x.strip() for x in pieces]
StripAll(pieces) == [i \in 1..Len(pieces) |-> Strip(pieces[i])]

\* authTypes for a method whose auth_type attribute is present
AuthTypes(authTypesStr) ==
    IF authTypesStr # <<>> THEN StripAll(Split(authTypesStr)) ELSE DefaultAuthTypes


(***************************************************************************)
(* convert and convertSubsystem as a state machine.                        *)
(*   doc      the children of the document's root, in document order       *)
(*   disk     the output directory: whether <outDir>/<branch> exists, and  *)
(*            the files in it (file name -> content)                       *)
(*   written  the positions in doc of the handlers whose file this run     *)
(*            has written                                                  *)
(*   hi, mi   the position of convert's loop in doc, and of                *)
(*            convertSubsystem's loop in the handler's children            *)
(*   methods  convertSubsystem's list of converted methods                 *)
(*   pc       "convert": at the head of convert's loop; "methods": at the  *)
(*            head of convertSubsystem's loop; "done": convert returned;   *)
(*            "crashed": an exception left convert; "call"/"returned":     *)
(*            a single function is applied to call.arg (see SpecFn)        *)
(*   exc      the exception that ended the run, "" when none               *)
(***************************************************************************)
Branch == "main"

\* the name of a handler's file inside <outDir>/<branch>
FileName(handlerName) == handlerName \o ".json"

\* the object convertSubsystem serialises
Document(handlerName, ms) ==
    [openrpc |-> "1.2.1",
     info |-> [version |-> "1.0.0",
               title |-> "IBSng: branch " \o Branch \o ": " \o handlerName],
     methods |-> ms]

\* open(path, "w") and write: the file is created or replaced
WriteFile(files, path, content) == Put(files, path, content)

NoCall == [fn |-> "", arg |-> El("", {}, <<>>)]
NoRet == [st |-> "", val |-> ""]

Handler == doc[hi]
Child == doc[hi].children[mi]

\* convert: the loop is over; convert returns
ConvertReturn ==
    /\ pc = "convert"
    /\ hi > Len(doc)
    /\ pc' = "done"
    /\ UNCHANGED <<doc, disk, written, hi, mi, methods, exc, call, ret>>

\* convert: a child of the root that is no <handler>
SkipNonHandler ==
    /\ pc = "convert"
    /\ hi <= Len(doc)
    /\ Handler.tag # "handler"
    /\ hi' = hi + 1
    /\ UNCHANGED <<doc, disk, written, mi, methods, pc, exc, call, ret>>

\* convertSubsystem: a handler without a name; return
SkipUnnamedHandler ==
    /\ pc = "convert"
    /\ hi <= Len(doc)
    /\ Handler.tag = "handler"
    /\ ~Truthy(Handler, "name")
    /\ hi' = hi + 1
    /\ UNCHANGED <<doc, disk, written, mi, methods, pc, exc, call, ret>>

\* convertSubsystem up to its loop: os.makedirs(branchDir, exist_ok=True); methods = []
EnterHandler ==
    /\ pc = "convert"
    /\ hi <= Len(doc)
    /\ Handler.tag = "handler"
    /\ Truthy(Handler, "name")
    /\ disk' = [disk EXCEPT !.branchDir = TRUE]
    /\ methods' = <<>>
    /\ mi' = 1
    /\ pc' = "methods"
    /\ UNCHANGED <<doc, written, hi, exc, call, ret>>

\* convertSubsystem's loop: a child that is no <method>
SkipNonMethod ==
    /\ pc = "methods"
    /\ mi <= Len(Handler.children)
    /\ Child.tag # "method"
    /\ mi' = mi + 1
    /\ UNCHANGED <<doc, disk, written, hi, methods, pc, exc, call, ret>>

\* what convertSubsystem does on a <method> without auth_type: "abort" returns
\* from convertSubsystem, "skip" goes on with the next child
MissingAuthType == "abort"

\* a loop that would return from convertSubsystem on a method that is None
MethodIsNoneAborts == "abort"

\* what convertSubsystem does when getJsonMethod returns None
MethodIsNone == "skip"

\* convertSubsystem's loop: a <method> without auth_type; return without writing
NoAuthType ==
    /\ pc = "methods"
    /\ mi <= Len(Handler.children)
    /\ Child.tag = "method"
    /\ ~Has(Child, "auth_type")
    /\ IF MissingAuthType = "abort"
       THEN /\ pc' = "convert"
            /\ hi' = hi + 1
            /\ mi' = 0
            /\ methods' = <<>>
       ELSE /\ mi' = mi + 1
            /\ UNCHANGED <<pc, hi, methods>>
    /\ UNCHANGED <<doc, disk, written, exc, call, ret>>

\* the run after an exception e leaves convert
Crash(e) ==
    /\ pc' = "crashed"
    /\ exc' = e
    /\ UNCHANGED <<doc, disk, written, hi, mi, methods, call, ret>>

\* the loop's iteration after its call of getJsonMethod
AfterGetJsonMethod(jsonMethod) ==
    IF jsonMethod.st = "raise" THEN Crash(jsonMethod.val)
    ELSE IF jsonMethod.st = "ok"
    THEN /\ methods' = Append(methods, jsonMethod.val)
         /\ mi' = mi + 1
         /\ UNCHANGED <<doc, disk, written, hi, pc, exc, call, ret>>
    ELSE IF MethodIsNone = "skip"
    THEN /\ mi' = mi + 1
         /\ UNCHANGED <<doc, disk, written, hi, methods, pc, exc, call, ret>>
    ELSE /\ pc' = "convert"
         /\ hi' = hi + 1
         /\ mi' = 0
         /\ methods' = <<>>
         /\ UNCHANGED <<doc, disk, written, exc, call, ret>>

\* convertSubsystem's loop: a <method> with auth_type
ConvertMethod ==
    /\ pc = "methods"
    /\ mi <= Len(Handler.children)
    /\ Child.tag = "method"
    /\ Has(Child, "auth_type")
    /\ AfterGetJsonMethod(getJsonMethod(Get(Handler, "name"), Child,
                                        AuthTypes(Get(Child, "auth_type"))))

\* convertSubsystem after its loop: write the handler's file; return
WriteHandler ==
    /\ pc = "methods"
    /\ mi > Len(Handler.children)
    /\ disk' = [disk EXCEPT !.files =
                  WriteFile(disk.files, FileName(Get(Handler, "name")),
                            Document(Get(Handler, "name"), methods))]
    /\ written' = written \cup {hi}
    /\ pc' = "convert"
    /\ hi' = hi + 1
    /\ mi' = 0
    /\ methods' = <<>>
    /\ UNCHANGED <<doc, exc, call, ret>>

Next ==
    \/ ConvertReturn
    \/ SkipNonHandler
    \/ SkipUnnamedHandler
    \/ EnterHandler
    \/ SkipNonMethod
    \/ NoAuthType
    \/ ConvertMethod
    \/ WriteHandler


(***************************************************************************)
(* Input documents.                                                        *)
(***************************************************************************)
\* the sequences over S of length at most n
SeqsUpTo(S, n) == UNION {[1..k -> S] : k \in 0..n}

AuthAdmin == <<"auth_type", <<"ADMIN">>>>

PInt == El("param", {<<"name", "p">>, <<"type", "int">>, <<"comment", "count">>}, <<>>)
PBogus == El("param", {<<"name", "q">>, <<"type", "bogus">>}, <<>>)
ChoiceA == El("choice", {<<"value", "a">>}, <<>>)
ChoiceB == El("choice", {<<"value", "b">>, <<"comment", "bee">>}, <<>>)
ChoiceInt == El("choice", {<<"value", "1">>, <<"type", "int">>, <<"default", "1">>}, <<>>)
ChoiceBadInt == El("choice", {<<"value", "x">>, <<"type", "int">>}, <<>>)
ChoiceNoValue == El("choice", {<<"comment", "none">>}, <<>>)
ChoiceEmpty == El("choice", {<<"value", "">>}, <<>>)
NotChoice == El("foo", {}, <<>>)

\* a dict with dynamic keys whose <value> is a choice with the children kids
DynDictOfChoice(kids) ==
    El("param", {<<"name", "d">>, <<"type", "dict">>, <<"dynamic_keys", "true">>},
       <<El("key", {<<"type", "str">>}, <<>>),
         El("value", {<<"type", "choice">>}, kids),
         PInt>>)

Input(params) == El("input", {}, params)
OutputInt == El("output", {<<"type", "int">>, <<"comment", "n">>}, <<>>)

Method(attrib, children) == El("method", attrib, children)

MethodOk1 == Method({<<"name", "m1">>, AuthAdmin}, <<Input(<<PInt>>), OutputInt>>)
MethodOk2 == Method({<<"name", "m2">>, <<"auth_type", <<>>>>, <<"requires_perm", "SEE">>},
                    <<Input(<<>>), El("output", {<<"value", "done">>}, <<>>)>>)
MethodNoAuth == Method({<<"name", "m3">>}, <<Input(<<>>), OutputInt>>)
MethodNoName == Method({AuthAdmin}, <<Input(<<>>), OutputInt>>)
MethodNoInput == Method({<<"name", "m4">>, AuthAdmin}, <<OutputInt>>)
MethodNoOutput == Method({<<"name", "m5">>, AuthAdmin}, <<Input(<<PInt>>)>>)
\* an <output> with neither type nor value (and a parameter that is never reached)
MethodNoOutputType == Method({<<"name", "m6">>, AuthAdmin},
                             <<Input(<<>>), El("output", {<<"comment", "?">>}, <<PBogus>>)>>)
MethodUnknownParam == Method({<<"name", "m7">>, AuthAdmin}, <<Input(<<PInt, PBogus>>), OutputInt>>)
MethodUnknownOutput == Method({<<"name", "m8">>, AuthAdmin},
                              <<Input(<<>>), El("output", {<<"type", "bogus">>}, <<>>)>>)
MethodUnknownResultParam ==
    Method({<<"name", "m11">>, AuthAdmin},
           <<Input(<<PInt>>), El("output", {<<"type", "int">>}, <<PInt, PBogus>>)>>)
MethodBadDynValue == Method({<<"name", "m9">>, AuthAdmin},
                            <<Input(<<DynDictOfChoice(<<NotChoice>>)>>), OutputInt>>)
MethodBadIntChoice == Method({<<"name", "m10">>, AuthAdmin},
                             <<Input(<<El("param", {<<"name", "c">>, <<"type", "choice">>},
                                          <<ChoiceBadInt>>)>>),
                               OutputInt>>)
NotMethod == El("doc", {<<"name", "x">>}, <<>>)

HandlerChildren == {MethodOk1, MethodOk2, MethodNoAuth, MethodNoName, MethodNoInput,
                    MethodNoOutput, MethodNoOutputType, MethodUnknownParam,
                    MethodUnknownOutput, MethodUnknownResultParam, MethodBadDynValue,
                    MethodBadIntChoice, NotMethod}

HandlerEl(name, children) == El("handler", {<<"name", name>>}, children)

\* the handlers that may precede and follow the handler under conversion
Neighbours == {<<>>,
               <<HandlerEl("a", <<MethodOk2>>)>>,
               <<HandlerEl("b", <<MethodOk1, MethodNoOutput>>)>>,
               <<El("handler", {}, <<MethodOk1>>)>>,
               <<El("note", {}, <<>>)>>}

FlowDocs == {pre \o <<HandlerEl("a", cs)>> \o post :
               pre \in Neighbours, post \in Neighbours,
               cs \in SeqsUpTo(HandlerChildren, MaxChildren)}

AuthAtoms == {"ADMIN", "ANONYMOUS", "root", ",", " "}

AuthDocs == {<<HandlerEl("a", <<Method({<<"name", "m1">>, <<"auth_type", a>>},
                                       <<Input(<<>>), OutputInt>>)>>)>> :
               a \in SeqsUpTo(AuthAtoms, MaxAuthLen)}

Docs == FlowDocs \cup AuthDocs

\* a file left by an earlier run
StaleDocument == Document("a", <<Put(EmptyDict, "name", "a.old")>>)

Disks == {[branchDir |-> FALSE, files |-> EmptyDict],
          [branchDir |-> TRUE, files |-> Put(EmptyDict, FileName("a"), StaleDocument)]}

Init ==
    /\ doc \in Docs
    /\ disk \in Disks
    /\ written = {}
    /\ hi = 1
    /\ mi = 0
    /\ methods = <<>>
    /\ pc = "convert"
    /\ exc = ""
    /\ call = NoCall
    /\ ret = NoRet

Spec == Init /\ [][Next]_vars


(***************************************************************************)
(* The functions of the module applied one at a time: call = [fn, arg]     *)
(* names the function and the element it is given, ret is what it returns. *)
(***************************************************************************)
Param(attrib, children) == El("param", attrib, children)

\* every set of attributes that takes, for each name in the domain of opts,
\* either no value or one of opts[name]
RECURSIVE AttribSets(_, _)
AttribSets(names, opts) ==
    IF names = {} THEN {{}}
    ELSE LET n == CHOOSE x \in names : TRUE IN
         {rest \cup extra : rest \in AttribSets(names \ {n}, opts),
                            extra \in {{}} \cup {{<<n, v>>} : v \in opts[n]}}

\* parameters of every kind, with and without default, optional and value
ExtraAttrParams ==
    {Param({<<"name", "p">>} \cup a, <<ChoiceA, ChoiceInt>>) :
       a \in AttribSets({"type", "default", "optional", "value"},
                        [type |-> {"", "int", "choice", "dict", "list", "str_int", "bogus"},
                         default |-> {"", "5"},
                         optional |-> {"", "1", "false"},
                         value |-> {"", "v"}])}

ChoiceKids == {ChoiceA, ChoiceB, ChoiceInt, ChoiceBadInt, ChoiceNoValue, NotChoice}
ChoiceKidSeqs == SeqsUpTo(ChoiceKids, MaxKids)

ChoiceParamOf(kids) == Param({<<"name", "c">>, <<"type", "choice">>, <<"comment", "pick">>}, kids)
ItemOfChoice(kids) == El("item", {<<"type", "choice">>}, kids)
ListOfChoice(kids) == Param({<<"name", "l">>, <<"type", "list">>}, <<ItemOfChoice(kids), El("item", {<<"type", "int">>}, <<>>)>>)
MethodReturning(kids) ==
    Method({<<"name", "m">>, AuthAdmin},
           <<Input(<<>>), El("output", {<<"type", "dict">>}, <<ChoiceParamOf(kids), PInt>>)>>)

\* a choice with the children kids, alone and in each place that converts it
ChoiceCalls ==
    UNION {{[fn |-> "getChoiceJsonParam", arg |-> ChoiceParamOf(kids)],
            [fn |-> "getParams", arg |-> Input(<<ChoiceParamOf(kids), PInt>>)],
            [fn |-> "getJsonMethod", arg |-> MethodReturning(kids)],
            [fn |-> "getListSchema", arg |-> ListOfChoice(kids)],
            [fn |-> "getJsonParam", arg |-> DynDictOfChoice(kids)]} : kids \in ChoiceKidSeqs}

ItemInt == El("item", {<<"type", "int">>, <<"comment", "n">>}, <<>>)
ItemNoType == El("item", {<<"comment", "?">>}, <<>>)
ItemChoice == El("item", {<<"type", "choice">>, <<"comment", "c">>}, <<ChoiceA, ChoiceB>>)
ItemBadChoice == El("item", {<<"type", "choice">>}, <<NotChoice>>)
ItemDict == El("item", {<<"type", "dict">>}, <<PInt>>)
ItemDictUnknown == El("item", {<<"type", "dict">>}, <<PBogus>>)
NotItem == El("note", {}, <<>>)

ListKids == {ItemInt, ItemNoType, ItemChoice, ItemBadChoice, ItemDict, ItemDictUnknown, NotItem}

ListCalls ==
    {[fn |-> "getListSchema", arg |-> Param({<<"name", "l">>, <<"type", "list">>} \cup a, kids)] :
       a \in AttribSets({"length"}, [length |-> {"", "-1", "3"}]),
       kids \in SeqsUpTo(ListKids, MaxItems)}

KeyEls == {El("key", a, <<>>) :
             a \in AttribSets({"type", "comment"}, [type |-> {"str", "int"}, comment |-> {"k"}])}
ValueTags == TypeTags \cup {"bogus"}
ValueEls == {El("value", a, <<>>) :
               a \in AttribSets({"type", "value"}, [type |-> ValueTags, value |-> {"v"}])}

DynDictCalls ==
    {[fn |-> "getJsonParam", arg |-> Param({<<"name", "d">>, <<"type", "dict">>} \cup a, ks \o vs \o ps)] :
       a \in AttribSets({"dynamic_keys"}, [dynamic_keys |-> {"true", "false"}]),
       ks \in {<<>>} \cup {<<k>> : k \in KeyEls},
       vs \in {<<>>} \cup {<<v>> : v \in ValueEls},
       ps \in {<<>>, <<PInt>>, <<PBogus>>}}

OutputKids == {ChoiceA, ChoiceB, ChoiceEmpty, NotChoice, PInt}

MethodCalls ==
    {[fn |-> "getJsonMethod",
      arg |-> Method({<<"name", "m">>, AuthAdmin}, <<Input(<<PInt>>), El("output", a, kids)>>)] :
       a \in AttribSets({"type", "value"},
                        [type |-> {"", "int", "choice", "any", "list, str", "dict", "bogus"},
                         value |-> {"", "v"}]),
       kids \in SeqsUpTo(OutputKids, MaxKids)}

Calls ==
    {[fn |-> "getJsonParam", arg |-> p] : p \in ExtraAttrParams}
      \cup ChoiceCalls \cup ListCalls \cup DynDictCalls \cup MethodCalls

InitFn ==
    /\ call \in Calls
    /\ ret = NoRet
    /\ pc = "call"
    /\ doc = <<>>
    /\ disk = [branchDir |-> FALSE, files |-> EmptyDict]
    /\ written = {}
    /\ hi = 0
    /\ mi = 0
    /\ methods = <<>>
    /\ exc = ""

\* the call returns r (or raises)
Return(r) ==
    /\ ret' = r
    /\ pc' = "returned"
    /\ UNCHANGED <<doc, disk, written, hi, mi, methods, exc, call>>

CallGetJsonParam == pc = "call" /\ call.fn = "getJsonParam" /\ Return(getJsonParam(call.arg))

CallGetChoiceJsonParam ==
    pc = "call" /\ call.fn = "getChoiceJsonParam" /\ Return(getChoiceJsonParam(call.arg))

CallGetParams == pc = "call" /\ call.fn = "getParams" /\ Return(getParams(call.arg))

CallGetListSchema ==
    pc = "call" /\ call.fn = "getListSchema" /\ Return(getListSchema(call.arg, Single("array")))

CallGetJsonMethod ==
    pc = "call" /\ call.fn = "getJsonMethod"
      /\ Return(getJsonMethod("h", call.arg, AuthTypes(Get(call.arg, "auth_type"))))

NextFn ==
    \/ CallGetJsonParam
    \/ CallGetChoiceJsonParam
    \/ CallGetParams
    \/ CallGetListSchema
    \/ CallGetJsonMethod

SpecFn == InitFn /\ [][NextFn]_vars


(***************************************************************************)
(* What the claims speak of, read off the document alone.                  *)
(***************************************************************************)
RECURSIVE HasUnknownTag(_)

IsNamedHandler(j) == doc[j].tag = "handler" /\ Truthy(doc[j], "name")
HandlerName(j) == Get(doc[j], "name")
Kids(j) == doc[j].children
IsMethod(c) == c.tag = "method"
\* some <method> child of handler j has no auth_type attribute
LacksAuthType(j) == \E k \in 1..Len(Kids(j)) : IsMethod(Kids(j)[k]) /\ ~Has(Kids(j)[k], "auth_type")
\* a type attribute that is neither "choice" nor a key of the type table
UnknownType(e) ==
    Has(e, "type") /\ Get(e, "type") # "" /\ Get(e, "type") # "choice" /\ Get(e, "type") \notin TypeTags
\* an unknown type tag on e or below it
HasUnknownTag(e) ==
    \/ e.tag \in {"param", "value", "output"} /\ UnknownType(e)
    \/ \E i \in 1..Len(e.children) : HasUnknownTag(e.children[i])
\* the <output> of c has a non-empty type or a non-empty value
OutputHasTypeOrValue(c) ==
    \E i \in 1..Len(c.children) :
        /\ c.children[i].tag = "output"
        /\ \A i2 \in 1..(i - 1) : c.children[i2].tag # "output"
        /\ \E p \in c.children[i].attrib : p[1] \in {"type", "value"} /\ p[2] # ""
\* c is a <method> with an <output> that has neither
HasBadOutput(c) ==
    /\ IsMethod(c)
    /\ \E p \in c.attrib : p[1] = "name" /\ p[2] # ""
    /\ \E i \in 1..Len(c.children) : c.children[i].tag = "input"
    /\ \E i \in 1..Len(c.children) : c.children[i].tag = "output"
    /\ ~OutputHasTypeOrValue(c)
\* c is a <method> with a non-empty name, an <input> and an <output> with a type or value
IsComplete(c) ==
    /\ IsMethod(c)
    /\ \E p \in c.attrib : p[1] = "name" /\ p[2] # ""
    /\ \E i \in 1..Len(c.children) : c.children[i].tag = "input"
    /\ OutputHasTypeOrValue(c)
\* the names, in document order, of the complete methods of handler j
ExpectedNames(j) ==
    [i \in 1..Len(SelectSeq(Kids(j), IsComplete)) |->
        HandlerName(j) \o "." \o Get(SelectSeq(Kids(j), IsComplete)[i], "name")]
\* the names of the methods listed in the file of handler j
FileNames(j) ==
    [i \in 1..Len(disk.files[FileName(HandlerName(j))].methods) |->
        disk.files[FileName(HandlerName(j))].methods[i]["name"]]
\* no later handler of the same name has overwritten the file handler j wrote
IsLastWriter(j) == \A l \in written : l > j => HandlerName(l) # HandlerName(j)
\* convertSubsystem has returned for handler j
Returned(j) == hi > j
\* the run ended inside handler j
CrashedIn(j) == pc = "crashed" /\ hi = j

(***************************************************************************)
(* C1: if a <method> child of a named handler has no auth_type, no file is *)
(* written for that handler in this run, a file already on disk is left    *)
(* untouched, and convert goes on with the later handlers; provided no     *)
(* unknown type tag was looked up before.                                  *)
(***************************************************************************)
C1_AbortsHandlerAndGoesOn ==
    \A j \in 1..Len(doc) :
        (IsNamedHandler(j) /\ LacksAuthType(j) /\ exc # "KeyError")
        => /\ j \notin written
           /\ ~CrashedIn(j)
           /\ (Returned(j) /\ \A l \in written : HandlerName(l) # HandlerName(j))
              => \/ FileName(HandlerName(j)) \notin DOMAIN disk.files
                 \/ disk.files[FileName(HandlerName(j))] = StaleDocument

C3_FileAlwaysWritten ==
    \A j \in 1..Len(doc) :
        (/\ IsNamedHandler(j)
         /\ ~LacksAuthType(j)
         /\ ~HasUnknownTag(doc[j])
         /\ (Returned(j) \/ CrashedIn(j)))
        => /\ j \in written
           /\ IsLastWriter(j) => FileNames(j) = ExpectedNames(j)


\* a named <param> whose type is not a key of the type table
IsUnknownParam(p) ==
    p.tag = "param" /\ (\E a \in p.attrib : a[1] = "name" /\ a[2] # "") /\ UnknownType(p)
\* an element whose conversion looks nothing up but its own, known, type
IsPlain(p) == p.children = <<>> /\ ~UnknownType(p) /\ (Has(p, "type") => Get(p, "type") # "choice")
\* the first child of kids that is not plain is a parameter of unknown type
FirstUnknown(kids) ==
    \E i \in 1..Len(kids) : IsUnknownParam(kids[i]) /\ \A i2 \in 1..(i - 1) : IsPlain(kids[i2])
\* converting the method m reaches the lookup of an unknown type tag
ReachesUnknownLookup(m) ==
    /\ IsMethod(m)
    /\ \E a \in m.attrib : a[1] = "name" /\ a[2] # ""
    /\ HasChild(m, "input") /\ HasChild(m, "output")
    /\ \/ FirstUnknown(Find(m, "input").children)
       \/ /\ \A i \in 1..Len(Find(m, "input").children) : IsPlain(Find(m, "input").children[i])
          /\ \/ UnknownType(Find(m, "output"))
             \/ /\ OutputHasTypeOrValue(m)
                /\ FirstUnknown(Find(m, "output").children)

(***************************************************************************)
(* C4: when the conversion of a method reaches the lookup of a type tag    *)
(* that is not in the type table, the run ends there with a KeyError: the  *)
(* files written so far stay as they are, the handler that holds the tag   *)
(* and the handlers after it get no file, and nothing happens afterwards.  *)
(***************************************************************************)
C4_UnknownTagEndsRun ==
    [][/\ pc # "crashed"
       /\ (/\ pc = "methods"
           /\ mi <= Len(Handler.children)
           /\ Has(Child, "auth_type")
           /\ ReachesUnknownLookup(Child))
          => /\ pc' = "crashed"
             /\ exc' = "KeyError"
             /\ disk' = disk
             /\ written' = written
             /\ \A j \in written' : j < hi']_vars

C4_Witness ==
    /\ pc = "crashed"
    /\ exc = "KeyError"
    /\ written # {}
    /\ hi < Len(doc)
    /\ IsNamedHandler(Len(doc))

\* the positions of the commas of the attribute value atoms
Commas(atoms) == {i \in 1..Len(atoms) : atoms[i] = ","}
\* the position of the n-th comma; 0 before the first, Len + 1 after the last
CommaAt(atoms, n) ==
    IF n = 0 THEN 0
    ELSE IF n > Cardinality(Commas(atoms)) THEN Len(atoms) + 1
    ELSE CHOOSE i \in Commas(atoms) : Cardinality({c \in Commas(atoms) : c < i}) = n - 1
\* the positions between two commas that hold something other than a blank
Inked(atoms, lo, hi2) == {i \in (lo + 1)..(hi2 - 1) : atoms[i] # " "}
\* the text from the first to the last of these positions
Between(atoms, S) ==
    IF S = {} THEN ""
    ELSE Concat(SubSeq(atoms, CHOOSE i \in S : \A i2 \in S : i <= i2,
                              CHOOSE i \in S : \A i2 \in S : i >= i2))
\* the whitespace-trimmed tokens between the commas, in source order
Tokens(atoms) ==
    [n \in 1..(Cardinality(Commas(atoms)) + 1) |->
        Between(atoms, Inked(atoms, CommaAt(atoms, n - 1), CommaAt(atoms, n)))]
\* the methods in the file of handler j
FileMethods(j) == disk.files[FileName(HandlerName(j))].methods

(***************************************************************************)
(* C7: every method in a written handler document carries as auth_type     *)
(* [ADMIN, NORMAL_USER, VOIP_USER] when its auth_type attribute is empty,  *)
(* and otherwise the whitespace-trimmed comma-separated tokens of the      *)
(* attribute in source order, unknown tokens kept; so ANONYMOUS is emitted *)
(* only when the attribute spells it.                                      *)
(***************************************************************************)
C7_AuthTypes ==
    \A j \in written :
        IsLastWriter(j) =>
            /\ Len(FileMethods(j)) = Len(SelectSeq(Kids(j), IsComplete))
            /\ \A n \in 1..Len(FileMethods(j)) :
                 /\ Get(SelectSeq(Kids(j), IsComplete)[n], "auth_type") = <<>>
                    => FileMethods(j)[n]["auth_type"] = <<"ADMIN", "NORMAL_USER", "VOIP_USER">>
                 /\ Get(SelectSeq(Kids(j), IsComplete)[n], "auth_type") # <<>>
                    => FileMethods(j)[n]["auth_type"]
                       = Tokens(Get(SelectSeq(Kids(j), IsComplete)[n], "auth_type"))
                 /\ (\E t \in 1..Len(FileMethods(j)[n]["auth_type"]) :
                        FileMethods(j)[n]["auth_type"][t] = "ANONYMOUS")
                    => \E i \in 1..Len(Get(SelectSeq(Kids(j), IsComplete)[n], "auth_type")) :
                         Get(SelectSeq(Kids(j), IsComplete)[n], "auth_type")[i] = "ANONYMOUS"

C7_Witness ==
    \E j \in written :
        /\ IsLastWriter(j)
        /\ Len(FileMethods(j)) = 1
        /\ Get(SelectSeq(Kids(j), IsComplete)[1], "auth_type") = <<" ", "root", ",">>
        /\ FileMethods(j)[1]["auth_type"] = <<"root", "">>


(***************************************************************************)
(* The calls of the single functions: what was called and what came back.  *)
(***************************************************************************)
\* the call of fn has returned a value
ReturnedOk(fn) == pc = "returned" /\ call.fn = fn /\ ret.st = "ok"

(***************************************************************************)
(* C5: the result of getJsonMethod never carries both an enum and a        *)
(* schema, and a non-empty value attribute of <output> always gives the    *)
(* one-element enum [value], whatever the type attribute says.             *)
(***************************************************************************)
C5_ExclusiveResultForms ==
    ReturnedOk("getJsonMethod")
    => /\ ~("enum" \in DOMAIN ret.val["result"] /\ "schema" \in DOMAIN ret.val["result"])
       /\ Truthy(Find(call.arg, "output"), "value")
          => /\ "enum" \in DOMAIN ret.val["result"]
             /\ ret.val["result"]["enum"] = <<JStr(Get(Find(call.arg, "output"), "value"))>>

(***************************************************************************)
(* C6: whatever its type, a parameter converted by getJsonParam carries    *)
(* required=false exactly when it declares a default attribute or a truthy *)
(* optional attribute; a declared default is emitted as its raw string,    *)
(* and optional alone records no default.                                  *)
(***************************************************************************)
C6_RequiredAndDefault ==
    ReturnedOk("getJsonParam")
    => /\ ("required" \in DOMAIN ret.val)
          <=> (Has(call.arg, "default") \/ Truthy(call.arg, "optional"))
       /\ "required" \in DOMAIN ret.val => ret.val["required"] = FALSE
       /\ Has(call.arg, "default")
          => "default" \in DOMAIN ret.val /\ ret.val["default"] = JStr(Get(call.arg, "default"))
       /\ (~Has(call.arg, "default") /\ Truthy(call.arg, "optional"))
          => "default" \notin DOMAIN ret.val

\* the element of the call whose children are the choices
ChoiceElOf(c) ==
    CASE c.fn = "getChoiceJsonParam" -> c.arg
      [] c.fn = "getParams" -> c.arg.children[1]
      [] c.fn = "getJsonMethod" -> Find(c.arg, "output").children[1]
      [] c.fn = "getListSchema" -> c.arg.children[1]
      [] c.fn = "getJsonParam" -> Find(c.arg, "value")
\* some child of e is not a <choice>, or is a <choice> without a value attribute
HasBadKid(e) ==
    \E i \in 1..Len(e.children) : e.children[i].tag # "choice" \/ ~Has(e.children[i], "value")

(***************************************************************************)
(* C9: when a child of a choice element is not a <choice> or has no value, *)
(* getChoiceJsonParam returns nothing and each of its callers drops the    *)
(* parameter and goes on; otherwise getChoiceJsonParam returns an object   *)
(* whose enum has one entry per child.                                     *)
(***************************************************************************)
C9_BadChoiceDropped ==
    (pc = "returned" /\ call \in ChoiceCalls)
    => IF HasBadKid(ChoiceElOf(call))
       THEN /\ ret.st # "raise"
            /\ call.fn = "getChoiceJsonParam" => ret.st = "none"
            /\ call.fn # "getChoiceJsonParam" => ret.st = "ok"
       ELSE call.fn = "getChoiceJsonParam"
            => /\ ret.st = "ok"
               /\ Len(ret.val["enum"]) = Len(call.arg.children)

\* the call converted a dict with dynamic keys, a <key> with a type and a
\* <value> of a type of the table and without a literal value
IsDynDictCall ==
    /\ ReturnedOk("getJsonParam")
    /\ Has(call.arg, "type") /\ Get(call.arg, "type") = "dict"
    /\ ~Truthy(call.arg, "value")
    /\ Has(call.arg, "dynamic_keys") /\ Get(call.arg, "dynamic_keys") = "true"
    /\ HasChild(call.arg, "key") /\ HasChild(call.arg, "value")
    /\ Has(Find(call.arg, "key"), "type")
    /\ Has(Find(call.arg, "value"), "type")
    /\ Get(Find(call.arg, "value"), "type") \in TypeTags
    /\ ~Truthy(Find(call.arg, "value"), "value")

(***************************************************************************)
(* C8, as claimed: in the schema of such a dict, __value__.type is the     *)
(* type tag of the <value> element as written.                             *)
(***************************************************************************)
C8_ValueTypeAsWritten ==
    IsDynDictCall
    => ret.val["schema"]["__value__"]["type"] = Single(Get(Find(call.arg, "value"), "type"))

(***************************************************************************)
(* C8, amended: the schema has dynamic_keys true, __key__ holds the key's  *)
(* type tag unchanged and its comment as title, and __value__.type is the  *)
(* type the type table maps the <value> element's tag to.                  *)
(***************************************************************************)
C8_ValueTypeMapped ==
    IsDynDictCall
    => /\ ret.val["schema"]["dynamic_keys"] = TRUE
       /\ DOMAIN ret.val["schema"]["__key__"] = {"type", "title"}
       /\ ret.val["schema"]["__key__"]["type"] = Get(Find(call.arg, "key"), "type")
       /\ ret.val["schema"]["__key__"]["title"]
          = (IF Has(Find(call.arg, "key"), "comment") THEN Get(Find(call.arg, "key"), "comment")
             ELSE "")
       /\ ret.val["schema"]["__value__"]["type"]
          = paramTypeMapping[Get(Find(call.arg, "value"), "type")].type

C8_Witness ==
    /\ IsDynDictCall
    /\ Get(Find(call.arg, "key"), "type") = "str"
    /\ Has(Find(call.arg, "key"), "comment")
    /\ Get(Find(call.arg, "value"), "type") = "int"
    /\ ret.val["schema"]["__value__"]["type"] = Single("number")


\* the positions of the <item> children of the list element of the call
ItemPositions == {i \in 1..Len(call.arg.children) : call.arg.children[i].tag = "item"}
\* the item resolves: it has a type and, if a choice, only <choice> children with a value
Resolves(item) ==
    /\ Has(item, "type") /\ Get(item, "type") # ""
    /\ Get(item, "type") = "choice" => ~HasBadKid(item)
ResolvedPositions == {i \in ItemPositions : Resolves(call.arg.children[i])}
\* the position of the n-th resolved item among the children
ResolvedAt(n) ==
    CHOOSE i \in ResolvedPositions : Cardinality({r \in ResolvedPositions : r < i}) = n - 1
\* the number of <item> children before position i
ItemsBefore(i) == Cardinality({q \in ItemPositions : q < i})
CommentOf(e) == IF Has(e, "comment") THEN Get(e, "comment") ELSE ""

(***************************************************************************)
(* C10, as claimed: with more than one <item> child the schema always has  *)
(* an `items` list, that of the schemas of the items that resolve.         *)
(***************************************************************************)
C10_ItemsAlwaysListed ==
    (ReturnedOk("getListSchema") /\ Cardinality(ItemPositions) > 1)
    => /\ "items" \in DOMAIN ret.val
       /\ Len(ret.val["items"]) = Cardinality(ResolvedPositions)

(***************************************************************************)
(* C10, amended: with more than one <item> child, `items` lists in order   *)
(* the schemas of the items that resolve, each with `index` the number of  *)
(* <item> children before it, and is absent when none resolves; with one   *)
(* <item>, `items` is that item's schema itself, absent when it does not   *)
(* resolve; `length` is copied iff present, non-empty and not "-1".        *)
(***************************************************************************)
C10_ItemsAndLength ==
    ReturnedOk("getListSchema")
    => /\ ("items" \in DOMAIN ret.val) <=> (ResolvedPositions # {})
       /\ (Cardinality(ItemPositions) > 1 /\ ResolvedPositions # {})
          => /\ Len(ret.val["items"]) = Cardinality(ResolvedPositions)
             /\ \A n \in 1..Len(ret.val["items"]) :
                  /\ ret.val["items"][n]["index"] = ItemsBefore(ResolvedAt(n))
                  /\ ret.val["items"][n]["title"] = CommentOf(call.arg.children[ResolvedAt(n)])
       /\ (Cardinality(ItemPositions) = 1 /\ ResolvedPositions # {})
          => /\ ret.val["items"]["title"] = CommentOf(call.arg.children[ResolvedAt(1)])
             /\ {k \in DOMAIN ret.val["items"] : k = "index"} = {}
       /\ ("length" \in DOMAIN ret.val)
          <=> (Has(call.arg, "length") /\ Get(call.arg, "length") \notin {"", "-1"})
       /\ "length" \in DOMAIN ret.val => ret.val["length"] = Get(call.arg, "length")

C10_Witness ==
    /\ ReturnedOk("getListSchema")
    /\ Cardinality(ItemPositions) = 3
    /\ Cardinality(ResolvedPositions) = 2
    /\ ~Resolves(call.arg.children[1])
    /\ ret.val["items"][1]["index"] = 1
    /\ ret.val["items"][2]["index"] = 2
    /\ "length" \in DOMAIN ret.val

====
